---- MODULE Spec2Model ----
(***************************************************************************)
(* Model of app.py: the YouTube summarizer pipeline (transcript fetch,     *)
(* audio fallback, speech-to-text, summarization) run by the "Generate     *)
(* Summary" button handler.  Streamlit runs every browser session's script *)
(* in a thread of the same process, so two sessions run the handler        *)
(* concurrently over one file system (the scratch directory temp_audio).   *)
(*                                                                         *)
(* Texts are run-length encoded strings: a sequence of runs [ch, n] with   *)
(* n >= 1 and no two adjacent runs of the same character, so that equality *)
(* of values is equality of strings.  "a" is a latin letter (the tokenizer *)
(* packs four of them into one token), "w" a character that is a token of  *)
(* its own (CJK-like), " " the space str.join inserts.                     *)
(***************************************************************************)
EXTENDS Integers, Sequences, FiniteSets, TLC

VARIABLES pc, url, transcript, audio_path, summary, display, calls,
          fetched, got, trans_arg, summ_arg, sent, fs

vars == << pc, url, transcript, audio_path, summary, display, calls,
           fetched, got, trans_arg, summ_arg, sent, fs >>

\* The browser sessions that run the script concurrently.
Sessions == {1, 2}

\* Longest list of segments the transcript service returns.
MaxSegs == 2

\* generate_summary's default budget (def generate_summary(text, max_tokens=3000)).
DefaultMaxTokens == 3000

-----------------------------------------------------------------------------
(* Strings *)

Str(c, n) == IF n = 0 THEN << >> ELSE << [ch |-> c, n |-> n] >>

RECURSIVE TextLen(_)
\* len(text)
TextLen(t) == IF t = << >> THEN 0 ELSE Head(t).n + TextLen(Tail(t))

\* s + t
Concat(s, t) ==
    IF s = << >> THEN t
    ELSE IF t = << >> THEN s
    ELSE LET a == s[Len(s)]
             b == t[1]
         IN  IF a.ch = b.ch
             THEN SubSeq(s, 1, Len(s) - 1)
                    \o << [ch |-> a.ch, n |-> a.n + b.n] >> \o Tail(t)
             ELSE s \o t

RECURSIVE Join(_)
\* ' '.join(texts)
Join(texts) ==
    IF texts = << >> THEN << >>
    ELSE IF Len(texts) = 1 THEN texts[1]
    ELSE Concat(Concat(texts[1], Str(" ", 1)), Join(Tail(texts)))

RECURSIVE Slice(_, _)
\* text[:k]
Slice(t, k) ==
    IF t = << >> \/ k <= 0 THEN << >>
    ELSE IF Head(t).n >= k THEN << [ch |-> Head(t).ch, n |-> k] >>
    ELSE << Head(t) >> \o Slice(Tail(t), k - Head(t).n)

\* An optional string: None, or a string.
None == [present |-> FALSE, text |-> << >>]
Some(t) == [present |-> TRUE, text |-> t]

\* "is not None" in place of truthiness: '' counts as a transcript.
Truthy_NotNone(o) == o.present

\* "if transcript" / "if not transcript": None and '' are falsy.
Truthy(o) == o.present /\ o.text # << >>

-----------------------------------------------------------------------------
(* The inputs *)

\* The text of the URL field: empty, not a YouTube URL, or the URL of a video.
Urls == {"", "bad", "v1", "v2", "v3"}

\* The videos among them.
Videos == {"v1", "v2", "v3"}

\* The default file name of a video's audio stream, made from the video's
\* title: v1 and v3 are two videos with the same title.
FileName(u) == IF u = "v2" THEN "t2.mp4" ELSE "t1.mp4"

\* One fixed file name for every download.
PathOf_Fixed(u) == "temp_audio/audio.mp4"

\* The file audio_stream.download(output_path=Path("temp_audio")) writes.
PathOf(u) == "temp_audio/" \o FileName(u)

Paths == {PathOf(u) : u \in Videos}

\* Segment texts of a transcript.
SegTexts == {Str("a", 0), Str("a", 5), Str("w", 3001)}

RECURSIVE SeqsUpTo(_, _)
SeqsUpTo(S, n) ==
    IF n = 0 THEN {<< >>}
    ELSE LET shorter == SeqsUpTo(S, n - 1)
         IN  shorter \cup {<< x >> \o s : x \in S, s \in {r \in shorter : Len(r) = n - 1}}

\* Lists of segments the transcript service returns.
TranscriptLists == SeqsUpTo(SegTexts, MaxSegs)

\* Texts the speech-to-text service returns.
WhisperTexts == {Str("a", 0), Str("a", 12000), Str("a", 12004), Str("w", 10501),
                 Concat(Str("a", 4000), Str("w", 8000))}

-----------------------------------------------------------------------------
Init ==
    /\ pc = [p \in Sessions |-> "idle"]
    /\ url = [p \in Sessions |-> ""]
    /\ transcript = [p \in Sessions |-> None]
    /\ audio_path = [p \in Sessions |-> "None"]
    /\ summary = [p \in Sessions |-> "None"]
    /\ display = [p \in Sessions |-> << >>]
    /\ calls = [p \in Sessions |-> << >>]
    /\ fetched = [p \in Sessions |-> "none"]
    /\ got = [p \in Sessions |-> 0]
    /\ trans_arg = [p \in Sessions |-> "None"]
    /\ summ_arg = [p \in Sessions |-> None]
    /\ sent = [p \in Sessions |-> None]
    /\ fs = [f \in Paths |-> 0]

-----------------------------------------------------------------------------
(* The four stage functions.  Each takes what the outside world answers     *)
(* (o, and the value a service returns) and gives the function's return     *)
(* value ret and the messages st.error displayed.                           *)

\* get_youtube_transcript without its "except (TranscriptsDisabled,
\* NoTranscriptFound)" clause: every exception is displayed.
get_youtube_transcript_AllErrors(u, o, segs) ==
    IF u # "bad" /\ o = "returned"
    THEN [ret |-> Some(Join(segs)), shown |-> << >>]
    ELSE [ret |-> None, shown |-> << "Error" >>]

\* get_youtube_transcript(url): o is what YouTube(url).video_id and
\* YouTubeTranscriptApi.get_transcript do; segs is the list of segment texts.
get_youtube_transcript(u, o, segs) ==
    IF u # "bad" /\ o = "returned"
    THEN [ret |-> Some(Join(segs)), shown |-> << >>]
    ELSE IF u # "bad" /\ o \in {"TranscriptsDisabled", "NoTranscriptFound"}
    THEN [ret |-> None, shown |-> << >>]
    ELSE [ret |-> None, shown |-> << "Error" >>]

\* download_audio(url): o is what YouTube(url), the stream query, mkdir and
\* audio_stream.download do.
download_audio(u, o) ==
    IF u # "bad" /\ o \in {"written", "existing"}
    THEN [ret |-> PathOf(u), shown |-> << >>]
    ELSE IF u # "bad" /\ o = "no_stream"
    THEN [ret |-> "None", shown |-> << >>]
    ELSE [ret |-> "None", shown |-> << "Download error" >>]

\* transcribe_audio(file_path): exists says whether open(file_path) finds the
\* file, o is what openai.Audio.transcribe does, text is transcript['text'].
transcribe_audio(exists, o, text) ==
    IF exists /\ o = "returned"
    THEN [ret |-> Some(text), shown |-> << >>]
    ELSE [ret |-> None, shown |-> << "Transcription error" >>]

RECURSIVE count_tokens(_)
\* count_tokens(text): len(encoding.encode(text)).
count_tokens(t) ==
    IF t = << >> THEN 0
    ELSE (IF Head(t).ch = "a" THEN (Head(t).n + 3) \div 4 ELSE Head(t).n)
           + count_tokens(Tail(t))

\* int(max_tokens * 3.5)
CharLimit(max_tokens) == (max_tokens * 7) \div 2

\* Truncation from the budget on (>= for >).
Truncate_AtBudget(text, max_tokens) ==
    IF count_tokens(text) >= max_tokens
    THEN Slice(text, CharLimit(max_tokens))
    ELSE text

\* The text generate_summary puts in the user message.
Truncate(text, max_tokens) ==
    IF count_tokens(text) > max_tokens
    THEN Slice(text, CharLimit(max_tokens))
    ELSE text

\* generate_summary(text): o is what tiktoken and openai.ChatCompletion.create
\* do, s is response.choices[0].message['content'].  sent is the text of the
\* request, absent when the tokenizer raised before the request.
generate_summary(text, max_tokens, o, s) ==
    IF o = "tokenizer_error"
    THEN [ret |-> "None", shown |-> << "Summarization error" >>, sent |-> None]
    ELSE IF o = "api_error"
    THEN [ret |-> "None", shown |-> << "Summarization error" >>,
          sent |-> Some(Truncate(text, max_tokens))]
    ELSE [ret |-> s, shown |-> << >>, sent |-> Some(Truncate(text, max_tokens))]

-----------------------------------------------------------------------------
(* The button handler, one action per call it makes. *)

\* "if transcript:" ... "else: st.error(...)": where the handler goes once
\* both transcript sources have been tried, and what it displays.
AfterTranscript(t) ==
    IF Truthy(t)
    THEN [pc |-> "summarize", shown |-> << "transcript" >>]
    ELSE [pc |-> "Failed", shown |-> << "Could not process video" >>]

\* The user types u and presses "Generate Summary".
Click(p, u) ==
    /\ pc[p] = "idle"
    /\ url' = [url EXCEPT ![p] = u]
    /\ IF u # ""
       THEN /\ pc' = [pc EXCEPT ![p] = "fetch"]
            /\ UNCHANGED display
       ELSE /\ pc' = [pc EXCEPT ![p] = "Warned"]
            /\ display' = [display EXCEPT ![p] = @ \o << "Please enter a valid YouTube URL" >>]
    /\ UNCHANGED << transcript, audio_path, summary, calls, fetched, got,
                    trans_arg, summ_arg, sent, fs >>

\* transcript = get_youtube_transcript(url); if not transcript: ...
GetTranscript(p) ==
    /\ pc[p] = "fetch"
    /\ \E o \in {"returned", "TranscriptsDisabled", "NoTranscriptFound", "error"} :
       \E segs \in IF o = "returned" /\ url[p] # "bad" THEN TranscriptLists ELSE {<< >>} :
         LET r == get_youtube_transcript(url[p], o, segs)
             next == AfterTranscript(r.ret)
         IN  /\ url[p] = "bad" => o = "error"
             /\ fetched' = [fetched EXCEPT ![p] = o]
             /\ transcript' = [transcript EXCEPT ![p] = r.ret]
             /\ calls' = [calls EXCEPT ![p] = @ \o << "get_youtube_transcript" >>]
             /\ IF ~Truthy(r.ret)
                THEN /\ pc' = [pc EXCEPT ![p] = "download"]
                     /\ display' = [display EXCEPT ![p] = @ \o r.shown]
                ELSE /\ pc' = [pc EXCEPT ![p] = next.pc]
                     /\ display' = [display EXCEPT ![p] = @ \o r.shown \o next.shown]
    /\ UNCHANGED << url, audio_path, summary, got, trans_arg, summ_arg, sent, fs >>

\* audio_path = download_audio(url); if audio_path: ...
DownloadAudio(p) ==
    /\ pc[p] = "download"
    /\ \E o \in {"written", "existing", "partial", "no_stream", "error"} :
         LET r == download_audio(url[p], o)
             f == PathOf(url[p])
             next == AfterTranscript(transcript[p])
         IN  /\ url[p] = "bad" => o = "error"
             /\ o = "existing" => fs[f] # 0
             /\ fs' = IF o \in {"written", "partial"} THEN [fs EXCEPT ![f] = p] ELSE fs
             /\ audio_path' = [audio_path EXCEPT ![p] = r.ret]
             /\ got' = [got EXCEPT ![p] = IF r.ret # "None" THEN fs'[f] ELSE 0]
             /\ calls' = [calls EXCEPT ![p] = @ \o << "download_audio" >>]
             /\ IF r.ret # "None"
                THEN /\ pc' = [pc EXCEPT ![p] = "transcribe"]
                     /\ display' = [display EXCEPT ![p] = @ \o r.shown]
                ELSE /\ pc' = [pc EXCEPT ![p] = next.pc]
                     /\ display' = [display EXCEPT ![p] = @ \o r.shown \o next.shown]
    /\ UNCHANGED << url, transcript, summary, fetched, trans_arg, summ_arg, sent >>

\* The transcription without the cleanup that follows it.
TranscribeAudio_NoCleanup(p) ==
    /\ pc[p] = "transcribe"
    /\ \E o \in {"returned", "error"} :
       \E text \in IF o = "returned" /\ fs[audio_path[p]] # 0 THEN WhisperTexts ELSE {<< >>} :
         LET r == transcribe_audio(fs[audio_path[p]] # 0, o, text)
             next == AfterTranscript(r.ret)
         IN  /\ transcript' = [transcript EXCEPT ![p] = r.ret]
             /\ display' = [display EXCEPT ![p] = @ \o r.shown \o next.shown]
             /\ pc' = [pc EXCEPT ![p] = next.pc]
    /\ trans_arg' = [trans_arg EXCEPT ![p] = audio_path[p]]
    /\ calls' = [calls EXCEPT ![p] = @ \o << "transcribe_audio" >>]
    /\ UNCHANGED << url, audio_path, summary, fetched, got, summ_arg, sent, fs >>

\* transcript = transcribe_audio(audio_path)
TranscribeAudio(p) ==
    /\ pc[p] = "transcribe"
    /\ \E o \in {"returned", "error"} :
       \E text \in IF o = "returned" /\ fs[audio_path[p]] # 0 THEN WhisperTexts ELSE {<< >>} :
         LET r == transcribe_audio(fs[audio_path[p]] # 0, o, text)
         IN  /\ transcript' = [transcript EXCEPT ![p] = r.ret]
             /\ display' = [display EXCEPT ![p] = @ \o r.shown]
    /\ trans_arg' = [trans_arg EXCEPT ![p] = audio_path[p]]
    /\ calls' = [calls EXCEPT ![p] = @ \o << "transcribe_audio" >>]
    /\ pc' = [pc EXCEPT ![p] = "remove"]
    /\ UNCHANGED << url, audio_path, summary, fetched, got, summ_arg, sent, fs >>

\* The cleanup run only after a transcription that returned a text.
RemoveAudio_OnlyOnSuccess(p) ==
    /\ pc[p] = "remove"
    /\ LET next == AfterTranscript(transcript[p])
       IN  IF ~transcript[p].present
           THEN /\ UNCHANGED << fs, calls >>
                /\ pc' = [pc EXCEPT ![p] = next.pc]
                /\ display' = [display EXCEPT ![p] = @ \o next.shown]
           ELSE /\ calls' = [calls EXCEPT ![p] = @ \o << "os.remove" >>]
                /\ IF fs[audio_path[p]] # 0
                   THEN /\ fs' = [fs EXCEPT ![audio_path[p]] = 0]
                        /\ pc' = [pc EXCEPT ![p] = next.pc]
                        /\ display' = [display EXCEPT ![p] = @ \o next.shown]
                   ELSE /\ fs' = fs
                        /\ pc' = [pc EXCEPT ![p] = "Uncaught"]
                        /\ display' = [display EXCEPT ![p] = @ \o << "FileNotFoundError" >>]
    /\ UNCHANGED << url, transcript, audio_path, summary, fetched, got,
                    trans_arg, summ_arg, sent >>

\* os.remove(audio_path), then "if transcript:".  os.remove raises
\* FileNotFoundError when the file is gone; nothing in the handler catches it.
RemoveAudio(p) ==
    /\ pc[p] = "remove"
    /\ calls' = [calls EXCEPT ![p] = @ \o << "os.remove" >>]
    /\ IF fs[audio_path[p]] # 0
       THEN LET next == AfterTranscript(transcript[p])
            IN  /\ fs' = [fs EXCEPT ![audio_path[p]] = 0]
                /\ pc' = [pc EXCEPT ![p] = next.pc]
                /\ display' = [display EXCEPT ![p] = @ \o next.shown]
       ELSE /\ fs' = fs
            /\ pc' = [pc EXCEPT ![p] = "Uncaught"]
            /\ display' = [display EXCEPT ![p] = @ \o << "FileNotFoundError" >>]
    /\ UNCHANGED << url, transcript, audio_path, summary, fetched, got,
                    trans_arg, summ_arg, sent >>

\* summary = generate_summary(transcript); if summary: ... else: st.error(...)
GenerateSummary(p) ==
    /\ pc[p] = "summarize"
    /\ \E o \in {"returned", "api_error", "tokenizer_error"} :
       \E s \in IF o = "returned" THEN {"", "S"} ELSE {"None"} :
         LET r == generate_summary(transcript[p].text, DefaultMaxTokens, o, s)
             ok == r.ret \notin {"None", ""}
         IN  /\ summary' = [summary EXCEPT ![p] = r.ret]
             /\ sent' = [sent EXCEPT ![p] = r.sent]
             /\ pc' = [pc EXCEPT ![p] = IF ok THEN "Done" ELSE "Failed"]
             /\ display' = [display EXCEPT ![p] = @ \o r.shown \o
                              (IF ok THEN << "summary" >>
                                     ELSE << "Failed to generate summary" >>)]
    /\ summ_arg' = [summ_arg EXCEPT ![p] = transcript[p]]
    /\ calls' = [calls EXCEPT ![p] = @ \o << "generate_summary" >>]
    /\ UNCHANGED << url, transcript, audio_path, fetched, got, trans_arg, fs >>

Next ==
    \E p \in Sessions :
        \/ \E u \in Urls : Click(p, u)
        \/ GetTranscript(p)
        \/ DownloadAudio(p)
        \/ TranscribeAudio(p)
        \/ RemoveAudio(p)
        \/ GenerateSummary(p)

Spec == Init /\ [][Next]_vars

-----------------------------------------------------------------------------
(* Properties *)

Terminal == {"Done", "Failed", "Warned", "Uncaught"}

Called(p, fn) == \E i \in 1..Len(calls[p]) : calls[p][i] = fn

Count(p, fn) == Cardinality({i \in 1..Len(calls[p]) : calls[p][i] = fn})

Shown(p, msg) == \E i \in 1..Len(display[p]) : display[p][i] = msg

LastShown(p) == display[p][Len(display[p])]

SummaryOk(p) == summary[p] \notin {"None", ""}

\* s is a prefix of t (both run-length encoded).
IsPrefix(s, t) ==
    \/ s = << >>
    \/ /\ Len(s) <= Len(t)
       /\ \A i \in 1..(Len(s) - 1) : s[i] = t[i]
       /\ s[Len(s)].ch = t[Len(s)].ch
       /\ s[Len(s)].n <= t[Len(s)].n

\* The place of a call in the handler's text.
Rank(fn) ==
    CASE fn = "get_youtube_transcript" -> 1
      [] fn = "download_audio" -> 2
      [] fn = "transcribe_audio" -> 3
      [] fn = "os.remove" -> 4
      [] fn = "generate_summary" -> 5

\* A step of session p reads, overwrites or deletes the file that session q
\* downloaded and is still working with.
Interferes(p, q) ==
    /\ p # q
    /\ pc'[p] # pc[p]
    /\ pc[q] \in {"transcribe", "remove"}
    /\ fs[audio_path[q]] = q
    /\ \/ fs'[audio_path[q]] # q
       \/ pc[p] = "transcribe" /\ audio_path[p] = audio_path[q]

\* C1: whenever the transcript service returned a transcript (whatever the
\* list of segments), neither download_audio nor transcribe_audio is called.
C1_NoFallbackWhenTranscriptReturned ==
    \A p \in Sessions :
        fetched[p] = "returned" =>
            ~Called(p, "download_audio") /\ ~Called(p, "transcribe_audio")

\* C2: when the transcript service reports TranscriptsDisabled or
\* NoTranscriptFound, get_youtube_transcript returns None and displays no
\* error, and download_audio is called exactly once in the invocation.
C2_ExpectedAbsenceFallsBackOnce ==
    \A p \in Sessions :
        fetched[p] \in {"TranscriptsDisabled", "NoTranscriptFound"} =>
            /\ ~Shown(p, "Error")
            /\ pc[p] = "download" => transcript[p] = None /\ Count(p, "download_audio") = 0
            /\ pc[p] # "download" => Count(p, "download_audio") = 1

C2_Witness ==
    \E p \in Sessions :
        /\ fetched[p] = "TranscriptsDisabled"
        /\ pc[p] \in Terminal
        /\ Count(p, "download_audio") = 1

\* C3: once download_audio returned a path and transcribe_audio was called on
\* it, the file the download returned is gone when the invocation has ended,
\* whether the transcription returned a text or failed.
C3_AudioFileGoneAtEnd ==
    \A p \in Sessions :
        (pc[p] \in Terminal /\ Called(p, "transcribe_audio")) =>
            /\ audio_path[p] # "None"
            /\ fs[audio_path[p]] # got[p]

C3_Witness ==
    \E p \in Sessions :
        /\ pc[p] = "Failed"
        /\ Called(p, "transcribe_audio")
        /\ Shown(p, "Transcription error")
        /\ got[p] = p
        /\ fs[audio_path[p]] = 0

\* C4: every failure of a step is caught and turned into an absent result
\* and a displayed message; no exception escapes the button handler.
C4_NoExceptionEscapes ==
    \A p \in Sessions : pc[p] # "Uncaught"

\* C5: the text sent to the chat-completion service is the input unmodified
\* when the input has at most 3000 tokens, and otherwise the input's first
\* 10500 characters.
C5_SentTextIsInputOrPrefix ==
    \A p \in Sessions :
        sent[p].present =>
            LET text == summ_arg[p].text
                s == sent[p].text
            IN  /\ count_tokens(text) <= 3000 => s = text
                /\ count_tokens(text) > 3000 =>
                      /\ IsPrefix(s, text)
                      /\ TextLen(s) = IF TextLen(text) < 10500 THEN TextLen(text) ELSE 10500

C5_Witness ==
    \E p, q \in Sessions :
        /\ sent[p].present
        /\ count_tokens(summ_arg[p].text) > 3000
        /\ TextLen(summ_arg[p].text) > 10500
        /\ TextLen(sent[p].text) = 10500
        /\ sent[q].present
        /\ count_tokens(summ_arg[q].text) = 3000
        /\ TextLen(sent[q].text) > 10500

\* C6: an invocation with a non-empty URL ends either Done, with transcript
\* and summary both available and displayed, or Failed, with "Could not
\* process video" when there is no transcript (generate_summary not called)
\* or "Failed to generate summary" when there is no summary.
C6_EndsDoneOrFailed ==
    \A p \in Sessions :
        (url[p] # "" /\ pc[p] \in Terminal) =>
            \/ /\ pc[p] = "Done"
               /\ Truthy(transcript[p]) /\ SummaryOk(p)
               /\ Shown(p, "transcript") /\ Shown(p, "summary")
            \/ /\ pc[p] = "Failed"
               /\ ~Truthy(transcript[p])
               /\ ~Called(p, "generate_summary")
               /\ LastShown(p) = "Could not process video"
            \/ /\ pc[p] = "Failed"
               /\ Truthy(transcript[p]) /\ ~SummaryOk(p)
               /\ LastShown(p) = "Failed to generate summary"

\* C7: generate_summary is called only with a transcript that is present and
\* non-empty; None and '' are never forwarded to it.
C7_OnlyNonEmptyTranscriptSummarized ==
    \A p \in Sessions :
        /\ pc[p] = "summarize" => transcript[p].present /\ transcript[p].text # << >>
        /\ Called(p, "generate_summary") =>
              summ_arg[p].present /\ summ_arg[p].text # << >>

C7_Witness ==
    \E p \in Sessions :
        /\ fetched[p] = "returned"
        /\ Called(p, "transcribe_audio")
        /\ transcript[p] = Some(<< >>)
        /\ pc[p] = "Failed"
        /\ ~Called(p, "generate_summary")

\* C8: under any interleaving of two invocations, no invocation reads,
\* overwrites or deletes an audio file another invocation downloaded and has
\* not finished with.
C8_ExclusiveOwnership ==
    [][\A p, q \in Sessions : ~Interferes(p, q)]_vars

\* C8 as amended: the same, for two invocations whose downloads have
\* different file names.
C8_ExclusiveWhenFileNamesDiffer ==
    [][\A p, q \in Sessions :
          (url[p] \in Videos /\ url[q] \in Videos /\ FileName(url[p]) # FileName(url[q]))
              => ~Interferes(p, q)]_vars

C8_Witness ==
    /\ \A p \in Sessions : pc[p] = "remove" /\ fs[audio_path[p]] = p
    /\ FileName(url[1]) # FileName(url[2])

\* C9: the text sent to the chat-completion service has at most 3000 tokens.
C9_SentWithinBudget ==
    \A p \in Sessions :
        sent[p].present => count_tokens(sent[p].text) <= DefaultMaxTokens

\* C10: each stage is called at most once and in the order fetch, download,
\* transcribe, summarize; transcribe_audio is called only after download_audio
\* returned a path, and with that path; the audio file is deleted before
\* generate_summary is called.
C10_FixedOrderNoRetry ==
    \A p \in Sessions :
        /\ \A i, j \in 1..Len(calls[p]) : i < j => Rank(calls[p][i]) < Rank(calls[p][j])
        /\ Called(p, "transcribe_audio") =>
              /\ Called(p, "download_audio")
              /\ audio_path[p] = PathOf(url[p])
              /\ trans_arg[p] = audio_path[p]
        /\ ((pc[p] = "summarize" \/ Called(p, "generate_summary")) /\ audio_path[p] # "None") =>
              /\ Called(p, "os.remove")
              /\ fs[audio_path[p]] # got[p]

C10_Witness ==
    \E p \in Sessions :
        /\ pc[p] = "Done"
        /\ calls[p] = << "get_youtube_transcript", "download_audio", "transcribe_audio",
                         "os.remove", "generate_summary" >>

====
